---- MODULE Spec2Model ----
(***************************************************************************)
(* A model of src/yummy.py (JavaCompilerApp): the build pipeline           *)
(* compile_java / compile_java_thread, the dependency list handlers, the   *)
(* Tk event loop that runs the root.after callbacks, and the pure helper   *)
(* detect_main_class.                                                      *)
(*                                                                         *)
(* Text is a sequence of atoms.  An atom is a string: text that comes from *)
(* the user or the environment (source code, entry fields, paths, stderr)  *)
(* is held one character per atom, and a literal of the program is held as *)
(* one atom.  Character-level operations (strip, basename, the regular     *)
(* expression) therefore act on the parts they can act on in the program.  *)
(***************************************************************************)
EXTENDS Integers, Sequences, FiniteSets, TLC

VARIABLES
    jar_dependencies,   \* self.jar_dependencies: list of paths
    dependencies_list,  \* the Listbox rows (base names shown to the user)
    config_file,        \* "dependencies" of ~/.java_compiler_config.json
    status_bar,         \* text of the status bar label
    compile_button,     \* "normal" or "disabled"
    output_text,        \* output panel: the chunks appended since the last clear
    dialog,             \* the message box on screen (modal), NoDialog when none
    after_queue,        \* callbacks handed to root.after(0, ...), FIFO
    pc,                 \* pc[b]: position of the worker thread of build b
    locals,             \* locals[b]: the local variables of that worker
    nbuilds,            \* number of worker threads started so far
    nedits,             \* number of changes made to the dependency list so far
    ws,                 \* the directory temp_build: [exists, files]
    request,            \* observation: the fields read by the compile_java call being served
    trace,              \* observation: what the build being served logged, spawned and scheduled
    scan_text,          \* argument of detect_main_class (SpecDetect)
    scan_result         \* its result (SpecDetect)

vars == <<jar_dependencies, dependencies_list, config_file, status_bar,
          compile_button, output_text, dialog, after_queue, pc, locals,
          nbuilds, nedits, ws, request, trace, scan_text, scan_result>>

appVars == <<jar_dependencies, dependencies_list, config_file, status_bar,
             compile_button, output_text, dialog, after_queue, pc, locals,
             nbuilds, nedits, ws, request, trace>>

-----------------------------------------------------------------------------
(* Bounds of the model *)

\* worker threads started in one run of the application
MaxBuilds == 2
\* length of jar_dependencies
MaxDeps == 2
\* changes made to the dependency list in one run of the application
MaxEdits == 2
\* chunks concatenated into an argument of detect_main_class
MaxChunks == 5

-----------------------------------------------------------------------------
(* Characters and text *)

Last(s) == s[Len(s)]

Front(s) == SubSeq(s, 1, Len(s) - 1)

Letters ==
    {"a","b","c","d","e","f","g","h","i","j","k","l","m","n","o","p","q","r",
     "s","t","u","v","w","x","y","z","A","B","C","D","E","F","G","H","I","J",
     "K","L","M","N","O","P","Q","R","S","T","U","V","W","X","Y","Z"}

Digits == {"0","1","2","3","4","5","6","7","8","9"}

\* \s of the re module
IsSpace(c) == c \in {" ", "\t", "\n", "\r"}

\* \w of the re module
IsWord(c) == c \in Letters \cup Digits \cup {"_"}

RECURSIVE LStrip(_)
LStrip(s) ==
    IF s = <<>> THEN s
    ELSE IF IsSpace(Head(s)) THEN LStrip(Tail(s)) ELSE s

RECURSIVE RStrip(_)
RStrip(s) ==
    IF s = <<>> THEN s
    ELSE IF IsSpace(Last(s)) THEN RStrip(Front(s)) ELSE s

\* str.strip()
Strip(s) == RStrip(LStrip(s))

\* sep.join(parts)
RECURSIVE Join(_, _)
Join(parts, sep) ==
    IF parts = <<>> THEN <<>>
    ELSE IF Len(parts) = 1 THEN parts[1]
    ELSE parts[1] \o sep \o Join(Tail(parts), sep)

\* os.path.basename(p): what follows the last "/"
RECURSIVE BaseName(_)
BaseName(p) ==
    IF p = <<>> THEN <<>>
    ELSE IF Last(p) = "/" THEN <<>>
    ELSE BaseName(Front(p)) \o <<Last(p)>>

\* the working directory of the process
Cwd == <<"/", "w">>

\* str(Path(p).absolute()): a relative path is put under the working directory
Absolute(p) ==
    IF p # <<>> /\ Head(p) = "/" THEN p ELSE Cwd \o <<"/">> \o p

\* [f(x) for x in s]
MapSeq(F(_), s) == [i \in 1..Len(s) |-> F(s[i])]

-----------------------------------------------------------------------------
(* detect_main_class: re.search(r'public\s+class\s+(\w+)', java_code) *)

KwPublic == <<"p","u","b","l","i","c">>

KwClass == <<"c","l","a","s","s">>

\* the literal lit stands in s at position i
LitAt(s, i, lit) ==
    /\ i + Len(lit) - 1 <= Len(s)
    /\ SubSeq(s, i, i + Len(lit) - 1) = lit

\* first position at or after i that holds no whitespace (greedy \s+)
RECURSIVE SpaceRunEnd(_, _)
SpaceRunEnd(s, i) ==
    IF i <= Len(s) /\ IsSpace(s[i]) THEN SpaceRunEnd(s, i + 1) ELSE i

\* first position at or after i that holds no word character (greedy \w+)
RECURSIVE WordRunEnd(_, _)
WordRunEnd(s, i) ==
    IF i <= Len(s) /\ IsWord(s[i]) THEN WordRunEnd(s, i + 1) ELSE i

\* the pattern matches with its first character at position i
MatchAt(s, i) ==
    LET a == i + Len(KwPublic)
        b == SpaceRunEnd(s, a)
        c == b + Len(KwClass)
        d == SpaceRunEnd(s, c)
        e == WordRunEnd(s, d)
    IN  /\ LitAt(s, i, KwPublic)
        /\ b > a
        /\ LitAt(s, b, KwClass)
        /\ d > c
        /\ e > d

\* group(1) of the match that starts at i
GroupAt(s, i) ==
    LET d == SpaceRunEnd(s, SpaceRunEnd(s, i + Len(KwPublic)) + Len(KwClass))
    IN  SubSeq(s, d, WordRunEnd(s, d) - 1)

\* Python's None, and a returned string
NoMatch == [matched |-> FALSE, group |-> <<>>]

Found(g) == [matched |-> TRUE, group |-> g]

detect_main_class(java_code) ==
    LET starts == {i \in 1..Len(java_code) : MatchAt(java_code, i)}
    IN  IF starts = {} THEN NoMatch
        ELSE Found(GroupAt(java_code, CHOOSE i \in starts : \A j \in starts : i <= j))

-----------------------------------------------------------------------------
(* Values the model draws from *)

Builds == 1..MaxBuilds

\* files the "Select JAR Dependencies" dialog can return (absolute paths)
P_la == <<"/", "l", "/", "a">>

P_ma == <<"/", "m", "/", "a">>

DialogFiles == {P_la, P_ma}

\* a relative path, as a saved configuration may hold
P_rb == <<"r", "/", "b">>

\* "dependencies" of the configuration file found at start-up
ConfigChoices == {<<>>, <<P_rb>>}

\* results of askopenfilenames: no file (cancel), one file, or two files
FileSelections ==
    {<<>>} \cup {<<f>> : f \in DialogFiles}
           \cup {p \in DialogFiles \X DialogFiles : p[1] # p[2]}

\* contents of the code editor
SourceTexts ==
    { <<" ">>,
      <<"p","u","b","l","i","c"," ","c","l","a","s","s"," ","F"," ">>,
      <<"x">> }

\* contents of the main class entry
MainInputs == { <<>>, <<" ", "M">>, <<"1", "M">> }

\* contents of the author entry
AuthorInputs == { <<" ">>, <<"A">> }

\* results of asksaveasfilename: cancel, or a path
OutputPaths == { <<>>, <<"/", "o">> }

\* a finished external process: subprocess.CompletedProcess
ProcResults ==
    { [returncode |-> 0, stderr |-> <<>>],
      [returncode |-> 1, stderr |-> <<"e", "1">>],
      [returncode |-> 2, stderr |-> <<"e", "2">>] }

\* str(e) of the exceptions the worker can meet
ErrRmtree == <<"rmtree: permission denied">>

ErrMkdir == <<"mkdir: permission denied">>

ErrWrite == <<"open: permission denied">>

ErrLaunch == <<"No such file or directory">>

-----------------------------------------------------------------------------
(* The workspace directory and its files *)

TempDir == <<"temp_build">>

File(path, content, b) == [path |-> path, content |-> content, by |-> b]

NoWorkspace == [exists |-> FALSE, files |-> {}]

\* what an interrupted earlier run of the program can have left behind
StaleFile == File(TempDir \o <<"/", "Old.class">>, <<"bytecode">>, 0)

StaleWorkspace == [exists |-> TRUE, files |-> {StaleFile}]

\* shutil.rmtree(temp_dir), when it succeeds
RmTree(w) == NoWorkspace

\* variant: the directory is created when missing and an existing one is kept
PreparedWorkspace_KeepsFiles(w) == [exists |-> TRUE, files |-> w.files]

\* lines 500-502 when they succeed: remove an existing directory, then mkdir
PreparedWorkspace(w) == [exists |-> TRUE, files |-> {}]

\* open(path, "w") ... write(content)
WriteFile(w, path, content, b) ==
    [w EXCEPT !.files = {f \in @ : f.path # path} \cup {File(path, content, b)}]

\* variant: the finally clause does not remove the directory
CleanedWorkspace_NoRemoval(w) == w

\* lines 588-589 when rmtree succeeds
CleanedWorkspace(w) == IF w.exists THEN RmTree(w) ELSE w

-----------------------------------------------------------------------------
(* Pieces of compile_java and compile_java_thread *)

\* line 472
AuthorOrUnknown(author_raw) ==
    IF Strip(author_raw) # <<>> THEN Strip(author_raw) ELSE <<"Unknown">>

\* line 505
JavaFile(main_class) == TempDir \o <<"/">> \o main_class \o <<".java">>

\* line 540
ManifestFile == TempDir \o <<"/", "MANIFEST.MF">>

\* the class file javac leaves in the destination directory
ClassFile(main_class) == TempDir \o <<"/">> \o main_class \o <<".class">>

\* line 510
Classpath(deps) == MapSeq(Absolute, deps)

\* lines 511-517
CompileCmd(classpath, java_file) ==
    LET classpath_str == Join(classpath, <<":">>)
    IN  << <<"javac">>, <<"-d">>, TempDir >>
        \o (IF classpath_str # <<>> THEN << <<"-cp">>, classpath_str >> ELSE <<>>)
        \o << java_file >>

\* variant: the Class-Path line holds the paths, not their base names
ManifestText_FullPaths(main_class, author, classpath) ==
    <<"Manifest-Version: 1.0\n">>
    \o <<"Main-Class: ">> \o main_class \o <<"\n">>
    \o <<"Author: ">> \o author \o <<"\n">>
    \o (IF classpath # <<>>
        THEN <<"Class-Path: ">> \o Join(classpath, <<" ">>) \o <<"\n">>
        ELSE <<>>)

\* lines 542-546
ManifestText(main_class, author, classpath) ==
    <<"Manifest-Version: 1.0\n">>
    \o <<"Main-Class: ">> \o main_class \o <<"\n">>
    \o <<"Author: ">> \o author \o <<"\n">>
    \o (IF classpath # <<>>
        THEN <<"Class-Path: ">> \o Join(MapSeq(BaseName, classpath), <<" ">>) \o <<"\n">>
        ELSE <<>>)

\* lines 549-554
JarCmd(output_jar) ==
    << <<"jar">>, <<"cfm">>, Absolute(output_jar), ManifestFile,
       <<"-C">>, TempDir, <<".">> >>

\* variant: only exit status 1 counts as a failure
CompileFailed_OnlyOne(result) == result.returncode = 1

\* line 528
CompileFailed(result) == result.returncode # 0

\* variant: only exit status 1 counts as a failure
JarFailed_OnlyOne(result) == result.returncode = 1

\* line 565
JarFailed(result) == result.returncode # 0

\* the texts handed to append_output
LogStart(main_class, output_jar) ==
    <<"Compiling ">> \o main_class \o <<".java to ">> \o BaseName(output_jar) \o <<"...\n">>

LogCompileCmd(cmd) == <<"Compile command: ">> \o Join(cmd, <<" ">>) \o <<"\n">>

LogCompileFailed == <<"Compilation failed:\n">>

LogCompileOk == <<"Compilation successful!\n">>

LogJarCmd(cmd) == <<"JAR command: ">> \o Join(cmd, <<" ">>) \o <<"\n">>

LogJarFailed == <<"JAR creation failed:\n">>

LogSuccess(output_jar) == <<"Successfully created JAR file: ">> \o output_jar \o <<"\n">>

LogError(e) == <<"Error: ">> \o e \o <<"\n">>

\* the local variables of a worker; <<>> stands for a name not bound
NoLocals ==
    [java_code |-> <<>>, output_jar |-> <<>>, main_class |-> <<>>, author |-> <<>>,
     deps_read |-> <<>>, classpath |-> <<>>, e |-> <<>>]

\* message boxes
Dialog(kind, title, message) == [kind |-> kind, title |-> title, message |-> message]

NoDialog == Dialog("none", <<>>, <<>>)

WarnNoCode == Dialog("warning", <<"Warning">>, <<"Please enter Java code to compile.">>)

WarnNoMain == Dialog("warning", <<"Warning">>, <<"Please specify the main class.">>)

ErrCompile ==
    Dialog("error", <<"Compilation Error">>,
           <<"Failed to compile Java code. See output for details.">>)

ErrJar ==
    Dialog("error", <<"JAR Creation Error">>,
           <<"Failed to create JAR file. See output for details.">>)

InfoSuccess(output_jar) ==
    Dialog("info", <<"Success">>, <<"JAR file successfully created:\n">> \o output_jar)

ErrUnexpected(e) ==
    Dialog("error", <<"Error">>, <<"An unexpected error occurred: ">> \o e)

\* a callback handed to root.after(0, ...) by the worker of build b
Callback(cb, b, arg) == [cb |-> cb, b |-> b, arg |-> arg]

\* entries of the observation trace, which are also the effects of a step of
\* the worker in program order: a text handed to append_output, a process
\* started, its exit, a callback handed to root.after
Ev(ev, name, text, rc) == [ev |-> ev, name |-> name, text |-> text, rc |-> rc]

EvLog(text) == Ev("log", "", text, 0)

EvSpawn(prog, cmd) == Ev("spawn", prog, Join(cmd, <<" ">>), 0)

EvExit(prog, result) == Ev("exit", prog, result.stderr, result.returncode)

EvAfter(cb, arg) == Ev("after", cb, arg, 0)

-----------------------------------------------------------------------------
(* The application after JavaCompilerApp.__init__ *)

NoRequest ==
    [java_raw |-> <<>>, main_raw |-> <<>>, author_raw |-> <<>>,
     output_jar |-> <<>>, deps |-> <<>>]

\* __init__ runs load_config before setup_ui: update_dependencies_list (line 325)
\* raises AttributeError, which load_config swallows, after jar_dependencies is
\* set; setup_controls then creates the Listbox empty.
Init ==
    /\ \E cfg \in ConfigChoices :
          /\ config_file = cfg
          /\ jar_dependencies = cfg
    /\ dependencies_list = <<>>
    /\ status_bar = <<"Ready">>
    /\ compile_button = "normal"
    /\ output_text = <<>>
    /\ dialog = NoDialog
    /\ after_queue = <<>>
    /\ pc = [b \in Builds |-> "unborn"]
    /\ locals = [b \in Builds |-> NoLocals]
    /\ nbuilds = 0
    /\ nedits = 0
    /\ ws \in {NoWorkspace, StaleWorkspace}
    /\ request = NoRequest
    /\ trace = <<>>
    /\ scan_text = <<>>
    /\ scan_result = <<>>

-----------------------------------------------------------------------------
(* Handlers of the main thread *)

\* update_dependencies_list, lines 347-351
ListRows(deps) == MapSeq(BaseName, deps)

\* lines 437-443; files is what askopenfilenames returned
add_jar_dependency(files) ==
    LET new_deps == SelectSeq(files, LAMBDA f : \A i \in 1..Len(jar_dependencies) :
                                                    jar_dependencies[i] # f)
    IN  /\ dialog = NoDialog
        /\ nedits < MaxEdits
        /\ Len(jar_dependencies) + Len(new_deps) <= MaxDeps
        /\ IF files # <<>>
           THEN /\ jar_dependencies' = jar_dependencies \o new_deps
                /\ dependencies_list' = ListRows(jar_dependencies')
                /\ config_file' = jar_dependencies'
                /\ status_bar' = <<"Added ", ToString(Len(new_deps)), " JAR dependencies">>
                /\ nedits' = nedits + 1
           ELSE UNCHANGED <<jar_dependencies, dependencies_list, config_file, status_bar,
                            nedits>>
        /\ UNCHANGED <<compile_button, output_text, dialog, after_queue, pc,
                       locals, nbuilds, ws, request, trace, scan_text, scan_result>>

\* del self.jar_dependencies[i] for every selected row i
WithoutRows(deps, selected) ==
    LET keep == {i \in 1..Len(deps) : i \notin selected}
        Nth[k \in 1..Cardinality(keep)] ==
            CHOOSE i \in keep : Cardinality({j \in keep : j < i}) = k - 1
    IN  [k \in 1..Cardinality(keep) |-> deps[Nth[k]]]

\* lines 447-454; selected is curselection(), rows of the Listbox (from 1 here)
remove_selected_dependencies(selected) ==
    /\ dialog = NoDialog
    /\ nedits < MaxEdits
    /\ selected \subseteq 1..Len(dependencies_list)
    /\ IF selected # {}
       THEN /\ jar_dependencies' = WithoutRows(jar_dependencies, selected)
            /\ dependencies_list' = ListRows(jar_dependencies')
            /\ config_file' = jar_dependencies'
            /\ status_bar' = <<"Removed ", ToString(Cardinality(selected)), " dependencies">>
            /\ nedits' = nedits + 1
       ELSE UNCHANGED <<jar_dependencies, dependencies_list, config_file, status_bar,
                        nedits>>
    /\ UNCHANGED <<compile_button, output_text, dialog, after_queue, pc,
                   locals, nbuilds, ws, request, trace, scan_text, scan_result>>

\* variant: the compile button is left enabled while the worker runs
BuildingButtonState_Normal == "normal"

\* line 486: the state the compile button is given before the worker is started
BuildingButtonState == "disabled"

\* lines 456-493; the arguments are the contents of the editor and of the two
\* entries, and the answer of asksaveasfilename.  The handler runs when the
\* compile button is pressed, which a disabled button does not allow; a message
\* box is modal, so no handler of the main window runs while one is on screen.
\* showwarning returns when the user closes the box, and the handler with it.
compile_java(java_raw, main_raw, author_raw, output_jar) ==
    LET java_code == Strip(java_raw)
        typed == Strip(main_raw)
        detected == detect_main_class(java_code)
        main_class == IF typed # <<>> THEN typed ELSE detected.group
        author == AuthorOrUnknown(author_raw)
        b == nbuilds + 1
    IN  /\ compile_button = "normal"
        /\ dialog = NoDialog
        /\ nbuilds < MaxBuilds
        /\ UNCHANGED <<jar_dependencies, dependencies_list, config_file,
                       after_queue, nedits, ws, scan_text, scan_result>>
        /\ IF java_code = <<>>
           THEN /\ dialog' = WarnNoCode
                /\ UNCHANGED <<status_bar, compile_button, output_text, pc, locals,
                               nbuilds, request, trace>>
           ELSE IF typed = <<>> /\ ~detected.matched
           THEN /\ dialog' = WarnNoMain
                /\ UNCHANGED <<status_bar, compile_button, output_text, pc, locals,
                               nbuilds, request, trace>>
           ELSE IF output_jar = <<>>
           THEN UNCHANGED <<dialog, status_bar, compile_button, output_text, pc,
                            locals, nbuilds, request, trace>>
           ELSE /\ output_text' = <<LogStart(main_class, output_jar)>>
                /\ status_bar' = <<"Compiling...">>
                /\ compile_button' = BuildingButtonState
                /\ nbuilds' = b
                /\ pc' = [pc EXCEPT ![b] = "start"]
                /\ locals' = [locals EXCEPT ![b] =
                       [NoLocals EXCEPT !.java_code = java_code,
                                        !.output_jar = output_jar,
                                        !.main_class = main_class,
                                        !.author = author]]
                /\ request' = [java_raw |-> java_raw, main_raw |-> main_raw,
                               author_raw |-> author_raw, output_jar |-> output_jar,
                               deps |-> jar_dependencies]
                /\ trace' = <<EvLog(LogStart(main_class, output_jar))>>
                /\ UNCHANGED dialog

\* the Tk event loop runs the oldest root.after(0, ...) callback.  The lambda of
\* line 582 reads the worker's variable e when it runs: Python unbinds e at the
\* end of the except clause, and the call then raises NameError inside Tk's
\* callback wrapper, which reports it and shows no message box.
mainloop_after ==
    /\ after_queue # <<>>
    /\ LET c == Head(after_queue)
           unbound == c.cb = "unexpected" /\ locals[c.b].e = <<>>
       IN  /\ after_queue' = Tail(after_queue)
           /\ dialog' =
                 CASE c.cb = "compile_error" -> ErrCompile
                   [] c.cb = "jar_error" -> ErrJar
                   [] c.cb = "success" -> InfoSuccess(c.arg)
                   [] c.cb = "unexpected" /\ ~unbound -> ErrUnexpected(locals[c.b].e)
                   [] OTHER -> dialog
           /\ status_bar' = IF c.cb = "status_ready" THEN <<"Ready">> ELSE status_bar
           /\ compile_button' = IF c.cb = "button_normal" THEN "normal" ELSE compile_button
           \* the observation of a build ends when its last callback has run
           /\ request' = IF c.cb = "button_normal" THEN NoRequest ELSE request
           /\ trace' = IF c.cb = "button_normal" THEN <<>> ELSE trace
    /\ UNCHANGED <<jar_dependencies, dependencies_list, config_file, output_text, pc,
                   locals, nbuilds, nedits, ws, scan_text, scan_result>>

\* the user closes the message box on screen
dismiss_dialog ==
    /\ dialog # NoDialog
    /\ dialog' = NoDialog
    /\ UNCHANGED <<jar_dependencies, dependencies_list, config_file, status_bar,
                   compile_button, output_text, after_queue, pc, locals, nbuilds,
                   nedits, ws, request, trace, scan_text, scan_result>>

-----------------------------------------------------------------------------
(* compile_java_thread, lines 495-592, one action per step of the worker *)

uiVars == <<jar_dependencies, dependencies_list, config_file, status_bar,
            compile_button, dialog, nedits>>

\* line 519
ClasspathEffects(cmd) == <<EvLog(LogCompileCmd(cmd))>>

\* lines 521-537
JavacEffects(cmd, result) ==
    <<EvSpawn("javac", cmd), EvExit("javac", result)>>
    \o (IF CompileFailed(result)
        THEN <<EvLog(LogCompileFailed), EvLog(result.stderr),
               EvAfter("compile_error", <<>>)>>
        ELSE <<EvLog(LogCompileOk)>>)

\* line 556
JarCmdEffects(cmd) == <<EvLog(LogJarCmd(cmd))>>

\* variant: the success message box is scheduled before the success line is logged
JarEffects_NotifyFirst(cmd, result, output_jar) ==
    <<EvSpawn("jar", cmd), EvExit("jar", result)>>
    \o (IF JarFailed(result)
        THEN <<EvLog(LogJarFailed), EvLog(result.stderr), EvAfter("jar_error", <<>>)>>
        ELSE <<EvAfter("success", output_jar), EvLog(LogSuccess(output_jar))>>)

\* lines 558-578
JarEffects(cmd, result, output_jar) ==
    <<EvSpawn("jar", cmd), EvExit("jar", result)>>
    \o (IF JarFailed(result)
        THEN <<EvLog(LogJarFailed), EvLog(result.stderr), EvAfter("jar_error", <<>>)>>
        ELSE <<EvLog(LogSuccess(output_jar)), EvAfter("success", output_jar)>>)

\* lines 581-585
ExceptEffects(e) == <<EvLog(LogError(e)), EvAfter("unexpected", <<>>)>>

\* lines 591-592
FinallyEffects == <<EvAfter("status_ready", <<>>), EvAfter("button_normal", <<>>)>>

IsLog(x) == x.ev = "log"

IsAfter(x) == x.ev = "after"

TextOf(x) == x.text

\* the worker of build b performs effects, in order
Perform(b, effects) ==
    /\ output_text' = output_text \o MapSeq(TextOf, SelectSeq(effects, IsLog))
    /\ after_queue' = after_queue
                      \o MapSeq(LAMBDA x : Callback(x.name, b, x.text),
                                SelectSeq(effects, IsAfter))
    /\ trace' = trace \o effects

\* the worker of build b moves to position p
Goto(b, p) == pc' = [pc EXCEPT ![b] = p]

\* an exception with text e leaves the try block for the except clause (line 580)
Raise(b, e) ==
    /\ Goto(b, "except")
    /\ locals' = [locals EXCEPT ![b].e = e]

\* lines 498-502
T_Prepare(b) ==
    /\ pc[b] = "start"
    /\ \E outcome \in {"ok", "rmtree_fails", "mkdir_fails"} :
          /\ outcome = "rmtree_fails" => ws.exists
          /\ IF outcome = "ok"
             THEN /\ ws' = PreparedWorkspace(ws)
                  /\ Goto(b, "write")
                  /\ UNCHANGED locals
             ELSE IF outcome = "rmtree_fails"
             THEN /\ ws' = ws
                  /\ Raise(b, ErrRmtree)
             ELSE /\ ws' = CleanedWorkspace(ws)
                  /\ Raise(b, ErrMkdir)
    /\ UNCHANGED <<uiVars, output_text, after_queue, nbuilds, request, trace,
                   scan_text, scan_result>>

\* lines 505-507
T_WriteSource(b) ==
    /\ pc[b] = "write"
    /\ \E ok \in BOOLEAN :
          /\ ok => ws.exists
          /\ IF ok
             THEN /\ ws' = WriteFile(ws, JavaFile(locals[b].main_class),
                                     locals[b].java_code, b)
                  /\ Goto(b, "classpath")
                  /\ UNCHANGED locals
             ELSE /\ ws' = ws
                  /\ Raise(b, ErrWrite)
    /\ UNCHANGED <<uiVars, output_text, after_queue, nbuilds, request, trace,
                   scan_text, scan_result>>

\* lines 510-519: the dependency list is read here, by the worker
T_Classpath(b) ==
    /\ pc[b] = "classpath"
    /\ locals' = [locals EXCEPT ![b].deps_read = jar_dependencies,
                                ![b].classpath = Classpath(jar_dependencies)]
    /\ Perform(b, ClasspathEffects(CompileCmd(Classpath(jar_dependencies),
                                              JavaFile(locals[b].main_class))))
    /\ Goto(b, "javac")
    /\ UNCHANGED <<uiVars, nbuilds, ws, request, scan_text, scan_result>>

\* lines 521-537: run javac and act on its exit status
T_Javac(b) ==
    /\ pc[b] = "javac"
    /\ LET cmd == CompileCmd(locals[b].classpath, JavaFile(locals[b].main_class))
       IN  \/ \* subprocess.run raises: the program cannot be started
              /\ Raise(b, ErrLaunch)
              /\ UNCHANGED <<output_text, trace, after_queue, ws>>
           \/ \E result \in ProcResults :
                 /\ ws' = IF result.returncode = 0 /\ ws.exists
                          THEN WriteFile(ws, ClassFile(locals[b].main_class),
                                         <<"bytecode">>, b)
                          ELSE ws
                 /\ Perform(b, JavacEffects(cmd, result))
                 /\ Goto(b, IF CompileFailed(result) THEN "finally" ELSE "manifest")
                 /\ UNCHANGED locals
    /\ UNCHANGED <<uiVars, nbuilds, request, scan_text, scan_result>>

\* lines 540-546
T_Manifest(b) ==
    /\ pc[b] = "manifest"
    /\ \E ok \in BOOLEAN :
          /\ ok => ws.exists
          /\ IF ok
             THEN /\ ws' = WriteFile(ws, ManifestFile,
                                     ManifestText(locals[b].main_class, locals[b].author,
                                                  locals[b].classpath), b)
                  /\ Goto(b, "jarcmd")
                  /\ UNCHANGED locals
             ELSE /\ ws' = ws
                  /\ Raise(b, ErrWrite)
    /\ UNCHANGED <<uiVars, output_text, after_queue, nbuilds, request, trace,
                   scan_text, scan_result>>

\* lines 549-556
T_JarCmd(b) ==
    /\ pc[b] = "jarcmd"
    /\ Perform(b, JarCmdEffects(JarCmd(locals[b].output_jar)))
    /\ Goto(b, "jar")
    /\ UNCHANGED <<uiVars, locals, nbuilds, ws, request, scan_text, scan_result>>

\* lines 558-578: run jar and act on its exit status; either way the try block
\* is left for the finally clause
T_Jar(b) ==
    /\ pc[b] = "jar"
    /\ \/ /\ Raise(b, ErrLaunch)
          /\ UNCHANGED <<output_text, trace, after_queue>>
       \/ \E result \in ProcResults :
             /\ Perform(b, JarEffects(JarCmd(locals[b].output_jar), result,
                                      locals[b].output_jar))
             /\ Goto(b, "finally")
             /\ UNCHANGED locals
    /\ UNCHANGED <<uiVars, nbuilds, ws, request, scan_text, scan_result>>

\* lines 580-585
T_Except(b) ==
    /\ pc[b] = "except"
    /\ Perform(b, ExceptEffects(locals[b].e))
    /\ Goto(b, "except_end")
    /\ UNCHANGED <<uiVars, locals, nbuilds, ws, request, scan_text, scan_result>>

\* the end of the except clause: "except Exception as e" unbinds e
T_ExceptEnd(b) ==
    /\ pc[b] = "except_end"
    /\ locals' = [locals EXCEPT ![b].e = <<>>]
    /\ Goto(b, "finally")
    /\ UNCHANGED <<uiVars, output_text, after_queue, nbuilds, ws, request, trace,
                   scan_text, scan_result>>

\* lines 586-592.  When rmtree raises, the exception leaves the thread function:
\* lines 591-592 do not run.  The frame of the worker is released either way.
T_Finally(b) ==
    /\ pc[b] = "finally"
    /\ \E ok \in BOOLEAN :
          /\ ~ok => ws.exists
          /\ IF ok
             THEN /\ ws' = CleanedWorkspace(ws)
                  /\ Perform(b, FinallyEffects)
                  /\ Goto(b, "done")
             ELSE /\ ws' = ws
                  /\ UNCHANGED <<output_text, after_queue, trace>>
                  /\ Goto(b, "crashed")
    /\ locals' = [locals EXCEPT ![b] = NoLocals]
    /\ UNCHANGED <<uiVars, nbuilds, request, scan_text, scan_result>>

Worker(b) ==
    \/ T_Prepare(b)
    \/ T_WriteSource(b)
    \/ T_Classpath(b)
    \/ T_Javac(b)
    \/ T_Manifest(b)
    \/ T_JarCmd(b)
    \/ T_Jar(b)
    \/ T_Except(b)
    \/ T_ExceptEnd(b)
    \/ T_Finally(b)

Next ==
    \/ \E files \in FileSelections : add_jar_dependency(files)
    \/ \E selected \in SUBSET (1..MaxDeps) : remove_selected_dependencies(selected)
    \/ \E java_raw \in SourceTexts, main_raw \in MainInputs,
          author_raw \in AuthorInputs, output_jar \in OutputPaths :
             compile_java(java_raw, main_raw, author_raw, output_jar)
    \/ mainloop_after
    \/ dismiss_dialog
    \/ \E b \in Builds : Worker(b)

Spec == Init /\ [][Next]_vars

\* Scheduling: a started thread keeps being run by the interpreter until its
\* function ends (subprocess.run returns once the external process has ended),
\* and root.mainloop() keeps running the callbacks handed to root.after.  The
\* user is under no obligation to press or close anything.
SpecLive ==
    /\ Init
    /\ [][Next]_vars
    /\ \A b \in Builds : WF_vars(Worker(b))
    /\ WF_vars(mainloop_after)

-----------------------------------------------------------------------------
(* detect_main_class as a function of its argument alone *)

\* pieces that arguments of detect_main_class are put together from
Chunks ==
    { KwPublic \o <<" ">> \o KwClass \o <<" ">>,
      <<"F">>, <<"x">>, <<"1">>, <<" ">>, <<";">> }

RECURSIVE TextsUpTo(_)
TextsUpTo(n) ==
    IF n = 0 THEN {<<>>}
    ELSE LET shorter == TextsUpTo(n - 1)
         IN  shorter \cup {t \o c : t \in shorter, c \in Chunks}

InitDetect ==
    /\ config_file = <<>>
    /\ jar_dependencies = <<>>
    /\ dependencies_list = <<>>
    /\ status_bar = <<"Ready">>
    /\ compile_button = "normal"
    /\ output_text = <<>>
    /\ dialog = NoDialog
    /\ after_queue = <<>>
    /\ pc = [b \in Builds |-> "unborn"]
    /\ locals = [b \in Builds |-> NoLocals]
    /\ nbuilds = 0
    /\ nedits = 0
    /\ ws = NoWorkspace
    /\ request = NoRequest
    /\ trace = <<>>
    /\ scan_text \in TextsUpTo(MaxChunks)
    /\ scan_result = <<>>

\* a call of detect_main_class(scan_text); scan_result holds what it returned
Detect ==
    /\ scan_result = <<>>
    /\ scan_result' = <<detect_main_class(scan_text)>>
    /\ UNCHANGED <<appVars, scan_text>>

NextDetect == Detect

SpecDetect == InitDetect /\ [][NextDetect]_vars

-----------------------------------------------------------------------------
(* Properties *)

TraceIdx == 1..Len(trace)

\* the callbacks that deliver the outcome of a build to the user
OutcomeCallbacks == {"compile_error", "jar_error", "success", "unexpected"}

IsExit(x, prog) == x.ev = "exit" /\ x.name = prog

IsSpawn(x, prog) == x.ev = "spawn" /\ x.name = prog

\* the latest build has been started and its worker is at one of positions
LatestAt(positions) == nbuilds >= 1 /\ pc[nbuilds] \in positions

\* C1: when javac exits with a non-zero status, the worker logs "Compilation
\* failed:" followed by the captured stderr, schedules the "Compilation Error"
\* message box, logs nothing more, and jar is never started in that build.
C1_CompileFailure ==
    \A i \in TraceIdx :
        (IsExit(trace[i], "javac") /\ trace[i].rc # 0) =>
            /\ Len(trace) >= i + 3
            /\ trace[i + 1] = EvLog(<<"Compilation failed:\n">>)
            /\ trace[i + 2] = EvLog(trace[i].text)
            /\ trace[i + 3] = EvAfter("compile_error", <<>>)
            /\ output_text[Len(output_text)] = trace[i].text
            /\ \A j \in TraceIdx :
                  /\ ~IsSpawn(trace[j], "jar")
                  /\ trace[j].ev = "after" =>
                        trace[j].name \in {"compile_error", "status_ready", "button_normal"}

C1_Witness ==
    /\ LatestAt({"done"})
    /\ \E i \in TraceIdx : IsExit(trace[i], "javac") /\ trace[i].rc = 2
    /\ dialog = ErrCompile

C3_PackageFailure ==
    /\ \A i \in TraceIdx :
          (IsExit(trace[i], "jar") /\ trace[i].rc # 0) =>
              /\ Len(trace) >= i + 3
              /\ trace[i + 1] = EvLog(<<"JAR creation failed:\n">>)
              /\ trace[i + 2] = EvLog(trace[i].text)
              /\ trace[i + 3] = EvAfter("jar_error", <<>>)
              /\ \A j \in TraceIdx :
                    /\ ~(trace[j].ev = "after" /\ trace[j].name = "success")
                    /\ trace[j] # EvLog(LogSuccess(request.output_jar))
    /\ \A j \in TraceIdx :
          (trace[j].ev = "after" /\ trace[j].name = "success") =>
              /\ \E i \in 1..(j - 1) : IsExit(trace[i], "javac") /\ trace[i].rc = 0
              /\ \E i \in 1..(j - 1) : IsExit(trace[i], "jar") /\ trace[i].rc = 0
              /\ \A i \in TraceIdx : trace[i].ev = "exit" => trace[i].rc = 0

C3_Witness ==
    /\ LatestAt({"done"})
    /\ \E i \in TraceIdx : IsExit(trace[i], "javac") /\ trace[i].rc = 0
    /\ \E i \in TraceIdx : IsExit(trace[i], "jar") /\ trace[i].rc = 2
    /\ dialog = ErrJar

\* the manifest of C4, line by line
ManifestLine(key, value) == <<key>> \o value \o <<"\n">>

IsBlank(s) == \A i \in 1..Len(s) : IsSpace(s[i])

ExpectedManifest(entry, author_field, deps) ==
    <<"Manifest-Version: 1.0\n">>
    \o ManifestLine("Main-Class: ", entry)
    \o ManifestLine("Author: ", IF IsBlank(author_field) THEN <<"Unknown">>
                                ELSE Strip(author_field))
    \o (IF Len(deps) > 0
        THEN ManifestLine("Class-Path: ", Join([i \in 1..Len(deps) |-> BaseName(deps[i])],
                                               <<" ">>))
        ELSE <<>>)

\* C4: the manifest a build writes is "Manifest-Version: 1.0", "Main-Class:"
\* with the build's main class, "Author:" with the author field ("Unknown" when
\* it is blank), in that order, and a "Class-Path:" line of the base names of
\* the dependency list the build read, in order, exactly when that list is not
\* empty: the text is a function of these three inputs.
C4_ManifestText ==
    \A f \in ws.files :
        (f.path = ManifestFile /\ f.by \in Builds /\ pc[f.by] \notin {"done", "crashed"}) =>
            f.content = ExpectedManifest(locals[f.by].main_class, request.author_raw,
                                         locals[f.by].deps_read)

C4_Witness ==
    \E f \in ws.files :
        /\ f.path = ManifestFile
        /\ f.by \in Builds
        /\ pc[f.by] = "jar"
        /\ Len(locals[f.by].deps_read) = 2
        /\ request.author_raw = <<" ">>

\* an identifier: letters, digits and underscores, not starting with a digit
IsIdentifier(t) ==
    /\ t # <<>>
    /\ \A i \in 1..Len(t) : IsWord(t[i])
    /\ t[1] \notin Digits

\* the entry identifier of a request: the main class entry, else the detected class
EntryIdentifier(java_raw, main_raw) ==
    IF Strip(main_raw) # <<>> THEN Strip(main_raw)
    ELSE detect_main_class(Strip(java_raw)).group

InvalidRequest(java_raw, main_raw, output_jar) ==
    \/ Strip(java_raw) = <<>>
    \/ ~IsIdentifier(EntryIdentifier(java_raw, main_raw))
    \/ output_jar = <<>>

\* C5 as stated: a compile_java call whose source text is empty, whose entry
\* identifier is empty or no identifier, or whose output path is empty starts
\* no worker, leaves the workspace alone and starts no external process.
C5_InvalidRejected ==
    [][\A java_raw \in SourceTexts, main_raw \in MainInputs,
          author_raw \in AuthorInputs, output_jar \in OutputPaths :
            (InvalidRequest(java_raw, main_raw, output_jar)
             /\ compile_java(java_raw, main_raw, author_raw, output_jar))
            => UNCHANGED <<pc, nbuilds, ws, trace>>]_vars

\* the tokens of a text: runs of word characters, and single other characters
RECURSIVE Tokens(_)
Tokens(s) ==
    IF s = <<>> THEN <<>>
    ELSE IF IsSpace(Head(s)) THEN Tokens(Tail(s))
    ELSE IF IsWord(Head(s))
         THEN LET e == WordRunEnd(s, 1)
              IN  <<SubSeq(s, 1, e - 1)>> \o Tokens(SubSeq(s, e, Len(s)))
    ELSE <<<<Head(s)>>>> \o Tokens(Tail(s))

\* the identifier of the leftmost token sequence "public", "class", identifier
TokenDetect(s) ==
    LET toks == Tokens(s)
        hits == {k \in 1..(Len(toks) - 2) :
                    /\ toks[k] = KwPublic
                    /\ toks[k + 1] = KwClass
                    /\ IsIdentifier(toks[k + 2])}
    IN  IF hits = {} THEN NoMatch
        ELSE Found(toks[(CHOOSE k \in hits : \A h \in hits : k <= h) + 2])

\* C6 as stated: detect_main_class returns the identifier of the leftmost
\* token sequence "public", "class", identifier, and None when there is none.
C6_TokenSequence ==
    scan_result # <<>> => scan_result[1] = TokenDetect(scan_text)

\* C7: from the moment a worker has written its source file until it has run
\* jar, temp_build holds that source file and only files this build produced.
C7_FreshWorkspace ==
    \A b \in Builds :
        pc[b] \in {"classpath", "javac", "manifest", "jarcmd", "jar"} =>
            /\ ws.exists
            /\ File(JavaFile(locals[b].main_class), locals[b].java_code, b) \in ws.files
            /\ \A f \in ws.files : f.by = b

C7_Witness ==
    /\ nbuilds = 2
    /\ pc[1] = "done"
    /\ pc[2] = "jar"
    /\ Cardinality(ws.files) = 3

\* C8: while a build is served the output panel holds the logged lines in the
\* order the worker logged them; the javac command line is logged before javac starts, "Compilation
\* successful!" before the jar command line, the jar command line before jar
\* starts, and no line is logged once the message box of the outcome has been
\* scheduled, hence none after it is shown.
C8_LogOrder ==
    /\ trace # <<>> => output_text = MapSeq(TextOf, SelectSeq(trace, IsLog))
    /\ \A i \in TraceIdx :
          /\ IsSpawn(trace[i], "javac") =>
                \E j \in 1..(i - 1) :
                    trace[j] = EvLog(<<"Compile command: ">> \o trace[i].text \o <<"\n">>)
          /\ IsSpawn(trace[i], "jar") =>
                \E j \in 1..(i - 1) :
                    /\ trace[j] = EvLog(<<"JAR command: ">> \o trace[i].text \o <<"\n">>)
                    /\ \E k \in 1..(j - 1) : trace[k] = EvLog(<<"Compilation successful!\n">>)
          /\ (trace[i].ev = "after" /\ trace[i].name \in OutcomeCallbacks) =>
                \A j \in (i + 1)..Len(trace) : trace[j].ev # "log"

C8_Witness ==
    /\ dialog = InfoSuccess(request.output_jar)
    /\ \E i \in TraceIdx : IsSpawn(trace[i], "jar")

\* C9 as stated: the javac command line and the manifest of a build are those
\* of the dependency list as it was when compile_java was called.
C9_RequestDeps ==
    LET main_class == EntryIdentifier(request.java_raw, request.main_raw)
        classpath == Classpath(request.deps)
    IN  /\ \A i \in TraceIdx :
              IsSpawn(trace[i], "javac") =>
                  trace[i].text = Join(CompileCmd(classpath, JavaFile(main_class)), <<" ">>)
        /\ \A f \in ws.files :
              (f.path = ManifestFile /\ f.by = nbuilds) =>
                  f.content = ManifestText(main_class, AuthorOrUnknown(request.author_raw),
                                           classpath)

\* C10 as stated: when the cleanup rmtree fails after javac and jar both
\* succeeded, success is still reported and a cleanup warning is logged (a line
\* after the success line).
C10_CleanupWarning ==
    \A i \in TraceIdx :
        (LatestAt({"crashed"}) /\ trace[i] = EvLog(LogSuccess(request.output_jar))) =>
            /\ \E j \in TraceIdx : trace[j].ev = "after" /\ trace[j].name = "success"
            /\ \E j \in (i + 1)..Len(trace) : trace[j].ev = "log"

\* the text of a manifest's Class-Path line: what stands between the key and
\* the end of the line; <<>> when the manifest has no such line
ClassPathValue(content) ==
    LET keys == {i \in 1..Len(content) : content[i] = "Class-Path: "}
    IN  IF keys = {} THEN <<>>
        ELSE LET k == CHOOSE i \in keys : TRUE
                 e == CHOOSE j \in (k + 1)..Len(content) :
                         /\ content[j] = "\n"
                         /\ \A h \in (k + 1)..(j - 1) : content[h] # "\n"
             IN  SubSeq(content, k + 1, e - 1)

\* the entries of a space-separated list
RECURSIVE SplitSpaces(_)
SplitSpaces(s) ==
    IF s = <<>> THEN <<>>
    ELSE IF Head(s) = " " THEN SplitSpaces(Tail(s))
    ELSE LET spaces == {i \in 1..Len(s) : s[i] = " "}
             e == IF spaces = {} THEN Len(s) + 1
                  ELSE CHOOSE i \in spaces : \A j \in spaces : i <= j
         IN  <<SubSeq(s, 1, e - 1)>> \o SplitSpaces(SubSeq(s, e, Len(s)))

\* C11 as stated: the Class-Path line of a manifest names no base name twice.
C11_ClassPathDistinct ==
    \A f \in ws.files :
        f.path = ManifestFile =>
            LET entries == SplitSpaces(ClassPathValue(f.content))
            IN  \A i, j \in 1..Len(entries) : i # j => entries[i] # entries[j]

\* the positions of a worker from its start to the end of its cleanup
Running ==
    {"start", "write", "classpath", "javac", "manifest", "jarcmd", "jar",
     "except", "except_end", "finally"}

\* C12: while a worker is between its start and the end of its cleanup, the
\* compile button is disabled, no other worker is in that range, and every file
\* written to temp_build since it was prepared is that worker's.
C12_OneWorker ==
    \A b \in Builds :
        pc[b] \in Running =>
            /\ compile_button = "disabled"
            /\ b = nbuilds
            /\ \A c \in Builds \ {b} : pc[c] \notin Running
            /\ pc[b] # "start" => \A f \in ws.files : f.by \in {0, b}

C12_Witness ==
    /\ nbuilds = 2
    /\ pc[1] = "done"
    /\ pc[2] = "finally"
    /\ compile_button = "disabled"

\* C13 as stated: whenever the compile button is disabled (a build has been
\* started), eventually it is enabled again.
C13_EventuallyIdle ==
    (compile_button = "disabled") ~> (compile_button = "normal")

\* C14 as stated: the Listbox shows the base names of jar_dependencies, in order.
C14_ListShowsDeps ==
    /\ Len(dependencies_list) = Len(jar_dependencies)
    /\ \A i \in 1..Len(jar_dependencies) :
          dependencies_list[i] = BaseName(jar_dependencies[i])

====
